---- MODULE Spec2Model ----
(***************************************************************************)
(* Model of app.py, the Streamlit front end of the document-query chatbot. *)
(*                                                                         *)
(* Streamlit executes the script top to bottom once per user interaction   *)
(* ("script run"), one run at a time per browser session, each session on  *)
(* its own thread.  st.session_state is per session; the table behind      *)
(* @st.cache_resource and the file training_info.txt are per process, so   *)
(* all sessions share them.  The runs of different sessions interleave at  *)
(* the granularity of the steps below.                                     *)
(***************************************************************************)
EXTENDS Integers, Sequences, FiniteSets, TLC

\* ---------------------------------------------------------------- bounds
MaxFiles == 2
MaxClock == 1
MaxStream == 3
MaxMsgs == 6
MaxLimit == 4

Sessions == {1, 2}

\* The values st.file_uploader can return: lists of uploaded files.  A file
\* is identified by its name and content, the two things the cache key of
\* build_qa_chain is computed from.
FileLists == {[i \in 1..n |-> i] : n \in 0..MaxFiles}

\* Config.CONVERSATION_MESSAGES_LIMIT is read from ragbase.config; any
\* integer is a possible configuration.
Limits == -1..MaxLimit

Prompts == {"q"}

\* ------------------------------------------------ events of ask_question
StrEvent(v) == [type |-> "str", val |-> v]
ListEvent(v) == [type |-> "list", val |-> v]
OtherEvent(v) == [type |-> "other", val |-> v]

Events ==
    { StrEvent(<<"a">>), StrEvent(<<"b">>),
      ListEvent(<<"d1">>), ListEvent(<<"d2">>),
      OtherEvent(<<"x">>) }

SeqsUpTo(S, n) == UNION {[1..k -> S] : k \in 0..n}

VARIABLES
    limit,          \* Config.CONVERSATION_MESSAGES_LIMIT
    streamBound,    \* longest stream ask_question returns in this behaviour
    fileBound,      \* most files a user uploads in this behaviour
    clockBound,     \* latest time the clock reaches in this behaviour
    live,           \* the browser sessions connected to the server
    askers,         \* the sessions whose user types questions
    now,            \* datetime.now(), to the second
    cache,          \* st.cache_resource table of build_qa_chain: key -> chain
    computing,      \* keys whose compute lock is held
    file,           \* content of DATABASE_DIR / "training_info.txt"
    session_state,  \* st.session_state of each session: key -> value
    pc,             \* position of each session's script run, or how its
                    \* latest run ended
    start,          \* st.session_state as it was when the current run began
    frame,          \* local variables of the executing build_qa_chain
    chain,          \* the script's global `chain`
    stream,         \* the events ask_question yields, and whether it raises
    pos,            \* number of events consumed by the async for
    full_response,  \* ask_chain local
    documents       \* ask_chain local

vars == <<limit, streamBound, fileBound, clockBound, live, askers, now,
          cache, computing, file, session_state, pc, start, frame, chain, stream, pos, full_response,
          documents>>

shared == <<now, cache, computing, file>>
config == <<limit, streamBound, fileBound, clockBound, live, askers>>
askLocals == <<stream, pos, full_response, documents>>

\* --------------------------------------------------------------- helpers
NoValue == <<>>
NoStream == [events |-> <<>>, raises |-> FALSE]

Has(ss, k) == k \in DOMAIN ss
SetKey(ss, k, v) == (k :> v) @@ ss

Greeting == [role |-> "assistant", content |-> <<"h", "i">>]

Message(role, content) == [role |-> role, content |-> content]

\* AppendMessage inserting at the front of the list.
AppendMessage_Prepend(msgs, m) == <<m>> \o msgs

AppendMessage(msgs, m) == Append(msgs, m)

\* str(n) as a sequence of decimal digits
RECURSIVE Digits(_)
Digits(n) == IF n < 10 THEN <<n>> ELSE Digits(n \div 10) \o <<n % 10>>

\* The bytes the two f.write calls produce, one token per fixed-width piece:
\* the timestamp always formats to 19 characters, the count to one character
\* per digit.
RecordText(last_trained, files_ingested) ==
    <<"Last Trained: ", last_trained, "\n", "Files Ingested: ">>
        \o Digits(files_ingested) \o <<"\n">>

\* Writing `text` at offset 0 of a file that holds `old`.
Overlay(old, text) ==
    IF Len(old) <= Len(text) THEN text
    ELSE text \o SubSeq(old, Len(text) + 1, Len(old))

\* NoFiles without the test of line 90: every upload passes.
NoFiles_Never(uploaded_files) == FALSE

NoFiles(uploaded_files) == Len(uploaded_files) = 0

\* LimitReached with the guard also active for a limit of 0.
LimitReached_NonNeg(lim, msgs) == lim >= 0 /\ lim <= Len(msgs)

\* LimitReached with < for <=.
LimitReached_OffByOne(lim, msgs) == lim > 0 /\ lim < Len(msgs)

LimitReached(lim, msgs) == lim > 0 /\ lim <= Len(msgs)

\* ------------------------------------------------------------------ Init
InitCommon ==
    /\ now = 0
    /\ cache = <<>>
    /\ computing = {}
    /\ file = <<>>
    /\ session_state = [s \in Sessions |-> <<>>]
    /\ pc = [s \in Sessions |-> "new"]
    /\ start = [s \in Sessions |-> <<>>]
    /\ frame = [s \in Sessions |-> NoValue]
    /\ chain = [s \in Sessions |-> NoValue]
    /\ stream = [s \in Sessions |-> NoStream]
    /\ pos = [s \in Sessions |-> 0]
    /\ full_response = [s \in Sessions |-> <<>>]
    /\ documents = [s \in Sessions |-> <<>>]

\* Two sessions, a configuration without conversation limit, one user who
\* asks questions, answers without events.
Init ==
    /\ InitCommon
    /\ limit = 0
    /\ live = Sessions
    /\ askers = {1}
    /\ streamBound = 0
    /\ fileBound = MaxFiles
    /\ clockBound = MaxClock

\* One session, every upload and every timestamp; a conversation of one
\* question.
InitBuild ==
    /\ InitCommon
    /\ limit = 2
    /\ live = {1}
    /\ askers = {1}
    /\ streamBound = 0
    /\ fileBound = MaxFiles
    /\ clockBound = MaxClock

\* One session, every configured limit, conversations of up to MaxMsgs
\* messages; one upload.
InitChat ==
    /\ InitCommon
    /\ limit \in Limits
    /\ live = {1}
    /\ askers = {1}
    /\ streamBound = 1
    /\ fileBound = 1
    /\ clockBound = 0

\* One session, every stream of up to MaxStream events; a conversation of
\* one question.
InitStream ==
    /\ InitCommon
    /\ limit = 2
    /\ live = {1}
    /\ askers = {1}
    /\ streamBound = MaxStream
    /\ fileBound = 1
    /\ clockBound = 0

\* ------------------------------------------------------- control flow
\* After with upload_files called before the training record is stored
\* and written.
After_RecordLate(p) ==
    CASE p = "init" -> "guard"
      [] p = "guard" -> "upload"
      [] p = "upload" -> "build_qa_chain"
      [] p = "build_qa_chain" -> "upload_files"
      [] p = "upload_files" -> "body_state"
      [] p = "body_state" -> "body_open"
      [] p = "body_open" -> "body_write"
      [] p = "body_write" -> "ingest"
      [] p = "ingest" -> "create_llm"
      [] p = "create_llm" -> "create_retriever"
      [] p = "create_retriever" -> "create_chain"
      [] p = "create_chain" -> "header"
      [] p = "header" -> "history"
      [] p = "history" -> "chat_input"
      [] p = "chat_input" -> "ask_chain"
      [] p = "ask_chain" -> "async_for"
      [] p = "async_for" -> "append"

\* The statement executed after statement p: the order of the statements of
\* the script and of the body of build_qa_chain.
After(p) ==
    CASE p = "init" -> "guard"
      [] p = "guard" -> "upload"
      [] p = "upload" -> "build_qa_chain"
      [] p = "build_qa_chain" -> "body_state"
      [] p = "body_state" -> "body_open"
      [] p = "body_open" -> "body_write"
      [] p = "body_write" -> "upload_files"
      [] p = "upload_files" -> "ingest"
      [] p = "ingest" -> "create_llm"
      [] p = "create_llm" -> "create_retriever"
      [] p = "create_retriever" -> "create_chain"
      [] p = "create_chain" -> "header"
      [] p = "header" -> "history"
      [] p = "history" -> "chat_input"
      [] p = "chat_input" -> "ask_chain"
      [] p = "ask_chain" -> "async_for"
      [] p = "async_for" -> "append"

At(s, p) == s \in live /\ pc[s] = p

Goto(s, p) == pc' = [pc EXCEPT ![s] = p]

\* The positions at which no run is in progress.
Ended == {"new", "done", "stopped_limit", "stopped_upload", "error"}

\* The run of session s ends: by falling off the end of the script ("done"),
\* by st.stop() ("stopped_limit", "stopped_upload") or by an uncaught
\* exception ("error").  The script's variables die with the run.
Finish(s, outcome) ==
    /\ pc' = [pc EXCEPT ![s] = outcome]
    /\ UNCHANGED start
    /\ frame' = [frame EXCEPT ![s] = NoValue]
    /\ chain' = [chain EXCEPT ![s] = NoValue]
    /\ stream' = [stream EXCEPT ![s] = NoStream]
    /\ pos' = [pos EXCEPT ![s] = 0]
    /\ full_response' = [full_response EXCEPT ![s] = <<>>]
    /\ documents' = [documents EXCEPT ![s] = <<>>]

\* An exception leaves build_qa_chain: the compute lock of the key is
\* released and nothing is cached.
RaiseInBody(s) ==
    /\ computing' = computing \ {frame[s].files}
    /\ Finish(s, "error")
    /\ UNCHANGED <<config, now, cache, file, session_state>>

\* ---------------------------------------------------------------- script
\* A user interaction (or the first page load) starts a script run.
Rerun(s) ==
    /\ s \in live
    /\ pc[s] \in Ended
    /\ pc' = [pc EXCEPT ![s] = "init"]
    /\ start' = [start EXCEPT ![s] = session_state[s]]
    /\ UNCHANGED <<config, shared, session_state, frame, chain, askLocals>>

\* lines 147-153
InitMessages(s) ==
    /\ At(s, "init")
    /\ session_state' =
         [session_state EXCEPT ![s] =
            IF Has(@, "messages") THEN @
            ELSE SetKey(@, "messages", <<Greeting>>)]
    /\ Goto(s, After("init"))
    /\ UNCHANGED <<config, shared, start, frame, chain, askLocals>>

\* lines 155-161
LimitGuard(s) ==
    /\ At(s, "guard")
    /\ IF LimitReached(limit, session_state[s].messages)
       THEN /\ Finish(s, "stopped_limit")
            /\ UNCHANGED <<config, shared, session_state>>
       ELSE /\ Goto(s, After("guard"))
            /\ UNCHANGED <<config, shared, session_state, start, frame, chain,
                           askLocals>>

\* show_upload_documents, lines 81-96, up to the call of build_qa_chain
ShowUploadDocuments(s) ==
    /\ At(s, "upload")
    /\ \E uploaded_files \in {f \in FileLists : Len(f) <= fileBound} :
         IF NoFiles(uploaded_files)
         THEN /\ Finish(s, "stopped_upload")
              /\ UNCHANGED <<config, shared, session_state>>
         ELSE /\ frame' = [frame EXCEPT ![s] = [files |-> uploaded_files]]
              /\ Goto(s, After("upload"))
              /\ UNCHANGED <<config, shared, session_state, start, chain,
                             askLocals>>

\* @st.cache_resource, line 34: a hit returns the cached chain without
\* executing the body; a miss executes the body under the key's compute
\* lock; a caller that finds the lock held waits for the holder.
CacheLookup(s) ==
    /\ At(s, "build_qa_chain")
    /\ LET key == frame[s].files IN
       IF key \in DOMAIN cache
       THEN /\ chain' = [chain EXCEPT ![s] = cache[key]]
            /\ frame' = [frame EXCEPT ![s] = NoValue]
            /\ Goto(s, After("create_chain"))
            /\ UNCHANGED computing
       ELSE /\ key \notin computing
            /\ computing' = computing \cup {key}
            /\ Goto(s, After("build_qa_chain"))
            /\ UNCHANGED <<frame, chain>>
    /\ UNCHANGED <<config, now, cache, file, session_state, start, askLocals>>

\* lines 41-45; datetime.now() reads the wall clock, which never runs
\* backwards
BodyState(s) ==
    /\ At(s, "body_state")
    /\ \E last_trained \in now..clockBound :
       LET files_ingested == Len(frame[s].files)
       IN /\ now' = last_trained
          /\ frame' = [frame EXCEPT ![s] =
                         ("last_trained" :> last_trained)
                         @@ ("files_ingested" :> files_ingested) @@ @]
          /\ session_state' =
               [session_state EXCEPT ![s] =
                  SetKey(SetKey(@, "last_trained", last_trained),
                         "files_ingested", files_ingested)]
    /\ Goto(s, After("body_state"))
    /\ UNCHANGED <<config, cache, computing, file, start, chain, askLocals>>

\* line 47: open(..., "w") truncates the file
OpenFile(s) ==
    /\ At(s, "body_open")
    /\ file' = <<>>
    /\ Goto(s, After("body_open"))
    /\ UNCHANGED <<config, now, cache, computing, session_state, start, frame,
                   chain, askLocals>>

\* lines 48-49 and the end of the with block: the two buffered writes reach
\* the file, at offset 0 of this handle, when the file is closed
WriteFile(s) ==
    /\ At(s, "body_write")
    /\ file' = Overlay(file, RecordText(frame[s].last_trained,
                                        frame[s].files_ingested))
    /\ Goto(s, After("body_write"))
    /\ UNCHANGED <<config, now, cache, computing, session_state, start, frame,
                   chain, askLocals>>

\* A collaborator call `var = value` inside build_qa_chain returns or raises.
Collaborate(s, p, var, value) ==
    /\ At(s, p)
    /\ \/ /\ frame' = [frame EXCEPT ![s] = (var :> value) @@ @]
          /\ Goto(s, After(p))
          /\ UNCHANGED <<config, shared, session_state, start, chain,
                         askLocals>>
       \/ RaiseInBody(s)

\* line 51
UploadFiles(s) ==
    Collaborate(s, "upload_files", "file_paths",
                <<"file_paths", frame[s].files>>)

\* line 52
Ingest(s) ==
    Collaborate(s, "ingest", "vector_store",
                <<"vector_store", frame[s].file_paths>>)

\* line 53
CreateLlm(s) ==
    Collaborate(s, "create_llm", "llm", <<"llm">>)

\* line 54
CreateRetriever(s) ==
    Collaborate(s, "create_retriever", "retriever",
                <<"retriever", frame[s].llm, frame[s].vector_store>>)

\* line 55, and the cache_resource wrapper storing the returned chain
CreateChain(s) ==
    /\ At(s, "create_chain")
    /\ \/ LET c == <<"chain", frame[s].llm, frame[s].retriever>> IN
          /\ cache' = (frame[s].files :> c) @@ cache
          /\ computing' = computing \ {frame[s].files}
          /\ chain' = [chain EXCEPT ![s] = c]
          /\ frame' = [frame EXCEPT ![s] = NoValue]
          /\ Goto(s, After("create_chain"))
          /\ UNCHANGED <<config, now, file, session_state, start, askLocals>>
       \/ RaiseInBody(s)

\* lines 179-186: the f-strings read st.session_state.last_trained and
\* st.session_state.files_ingested; a missing key raises AttributeError
Header(s) ==
    /\ At(s, "header")
    /\ IF Has(session_state[s], "last_trained")
          /\ Has(session_state[s], "files_ingested")
       THEN /\ Goto(s, After("header"))
            /\ UNCHANGED <<config, shared, session_state, start, frame, chain,
                           askLocals>>
       ELSE /\ Finish(s, "error")
            /\ UNCHANGED <<config, shared, session_state>>

\* show_message_history, lines 101-110: display only
ShowMessageHistory(s) ==
    /\ At(s, "history")
    /\ Has(session_state[s], "messages")
    /\ Goto(s, After("history"))
    /\ UNCHANGED <<config, shared, session_state, start, frame, chain,
                   askLocals>>

\* show_chat_input, lines 113-121, up to the call of ask_chain
ShowChatInput(s) ==
    /\ At(s, "chat_input")
    /\ \/ /\ Finish(s, "done")
          /\ UNCHANGED <<config, shared, session_state>>
       \/ \E prompt \in Prompts :
            /\ s \in askers
            /\ Len(session_state[s].messages) < MaxMsgs
            /\ session_state' =
                 [session_state EXCEPT ![s].messages =
                    AppendMessage(@, Message("user", prompt))]
            /\ Goto(s, After("chat_input"))
            /\ UNCHANGED <<config, shared, start, frame, chain, askLocals>>

\* ask_chain, lines 59-67: the locals, and the call of ask_question
AskChain(s) ==
    /\ At(s, "ask_chain")
    /\ \E events \in SeqsUpTo(Events, streamBound), raises \in BOOLEAN :
         stream' = [stream EXCEPT ![s] =
                      [events |-> events, raises |-> raises]]
    /\ pos' = [pos EXCEPT ![s] = 0]
    /\ full_response' = [full_response EXCEPT ![s] = <<>>]
    /\ documents' = [documents EXCEPT ![s] = <<>>]
    /\ Goto(s, After("ask_chain"))
    /\ UNCHANGED <<config, shared, session_state, start, frame, chain>>

\* OnStr with `is not list` for `is str`.
OnStr_NotList(response, event) ==
    IF event.type # "list" THEN response \o event.val ELSE response

\* lines 68-70
OnStr(response, event) ==
    IF event.type = "str" THEN response \o event.val ELSE response

\* lines 71-72
OnList(docs, event) ==
    IF event.type = "list" THEN docs \o event.val ELSE docs

\* lines 67-72: one iteration of the async for, its end, or its exception
AsyncFor(s) ==
    /\ At(s, "async_for")
    /\ IF pos[s] < Len(stream[s].events)
       THEN LET event == stream[s].events[pos[s] + 1] IN
            /\ pos' = [pos EXCEPT ![s] = @ + 1]
            /\ full_response' =
                 [full_response EXCEPT ![s] = OnStr(@, event)]
            /\ documents' = [documents EXCEPT ![s] = OnList(@, event)]
            /\ UNCHANGED <<pc, start, stream, frame, chain>>
       ELSE IF stream[s].raises
       THEN Finish(s, "error")
       ELSE /\ Goto(s, After("async_for"))
            /\ UNCHANGED <<start, frame, chain, askLocals>>
    /\ UNCHANGED <<config, shared, session_state>>

\* line 78
AskChainAppend(s) ==
    /\ At(s, "append")
    /\ session_state' =
         [session_state EXCEPT ![s].messages =
            AppendMessage(@, Message("assistant", full_response[s]))]
    /\ Finish(s, "done")
    /\ UNCHANGED <<config, shared>>

Next ==
    \/ \E s \in Sessions : Rerun(s)
    \/ \E s \in Sessions : InitMessages(s)
    \/ \E s \in Sessions : LimitGuard(s)
    \/ \E s \in Sessions : ShowUploadDocuments(s)
    \/ \E s \in Sessions : CacheLookup(s)
    \/ \E s \in Sessions : BodyState(s)
    \/ \E s \in Sessions : OpenFile(s)
    \/ \E s \in Sessions : WriteFile(s)
    \/ \E s \in Sessions : UploadFiles(s)
    \/ \E s \in Sessions : Ingest(s)
    \/ \E s \in Sessions : CreateLlm(s)
    \/ \E s \in Sessions : CreateRetriever(s)
    \/ \E s \in Sessions : CreateChain(s)
    \/ \E s \in Sessions : Header(s)
    \/ \E s \in Sessions : ShowMessageHistory(s)
    \/ \E s \in Sessions : ShowChatInput(s)
    \/ \E s \in Sessions : AskChain(s)
    \/ \E s \in Sessions : AsyncFor(s)
    \/ \E s \in Sessions : AskChainAppend(s)

Spec == Init /\ [][Next]_vars

SpecBuild == InitBuild /\ [][Next]_vars

SpecChat == InitChat /\ [][Next]_vars

SpecStream == InitStream /\ [][Next]_vars

\* ================================================================ claims
Messages(s) == session_state[s].messages

HasMessages(s) == Has(session_state[s], "messages")

\* The messages key of a session state: whether it is present, and its list.
MessagesOf(ss) ==
    IF Has(ss, "messages")
    THEN [present |-> TRUE, list |-> ss.messages]
    ELSE [present |-> FALSE, list |-> <<>>]

IsPrefix(a, b) == Len(a) <= Len(b) /\ SubSeq(b, 1, Len(a)) = a

Last(q) == q[Len(q)]

Running(s) == pc[s] \notin Ended

Collaborators ==
    {"upload_files", "ingest", "create_llm", "create_retriever",
     "create_chain"}

\* The stages of a run that follow the limit guard and precede the first
\* append of the run.
BeforeAppend ==
    {"upload", "build_qa_chain", "body_state", "body_open", "body_write",
     "header", "history", "chat_input"} \cup Collaborators

\* The concatenation of the values of the events of type ty, in order.
RECURSIVE ConcatOfType(_, _)
ConcatOfType(events, ty) ==
    IF events = <<>> THEN <<>>
    ELSE (IF Head(events).type = ty THEN Head(events).val ELSE <<>>)
         \o ConcatOfType(Tail(events), ty)

\* The file list a chain was built from.
FilesOf(c) == c[3][3][2][2]

\* ---------------------------------------------------------------- C1
\* C1, as stated: a run in which the uploader returns no files halts inside
\* show_upload_documents, without calling build_qa_chain (cache and
\* training_info.txt untouched by the halting step), and the session's
\* messages are what they were when the run began; a run that goes on past
\* the upload step has a non-empty file list.
C1_HaltLeavesMessagesUnchanged ==
    [][\A s \in Sessions :
         (pc[s] = "upload" /\ pc'[s] # "upload") =>
            IF pc'[s] = "stopped_upload"
            THEN /\ cache' = cache
                 /\ computing' = computing
                 /\ file' = file
                 /\ MessagesOf(session_state'[s]) = MessagesOf(start[s])
            ELSE /\ pc'[s] = "build_qa_chain"
                 /\ frame'[s].files # <<>>]_vars

\* C1, amended: as above, but the messages are unchanged only from the
\* point where the run has initialised them: a run that finds the key
\* absent creates the list with the greeting before it halts; no message is
\* appended, and the rest of the session state is untouched.
C1_HaltAppendsNothing ==
    [][\A s \in Sessions :
         (pc[s] = "upload" /\ pc'[s] # "upload") =>
            IF pc'[s] = "stopped_upload"
            THEN /\ cache' = cache
                 /\ computing' = computing
                 /\ file' = file
                 /\ session_state'[s] = session_state[s]
                 /\ IF Has(start[s], "messages")
                    THEN session_state'[s] = start[s]
                    ELSE session_state'[s] =
                           SetKey(start[s], "messages", <<Greeting>>)
            ELSE /\ pc'[s] = "build_qa_chain"
                 /\ frame'[s].files # <<>>]_vars

\* A run halted for want of files in a session that has a conversation.
C1_Witness ==
    \E s \in Sessions :
        /\ pc[s] = "stopped_upload"
        /\ HasMessages(s)
        /\ Len(Messages(s)) >= 3
        /\ start[s] = session_state[s]

\* ---------------------------------------------------------------- C2
\* C2: the guard halts the run exactly when the limit is positive and the
\* number of messages has reached it, and the halting step changes
\* nothing; no run gets to the upload step, the chain build or the chat
\* input with the limit reached; and once the limit is reached outside an
\* answer in progress, the messages never change again.
C2_LimitGuard ==
    /\ [][\A s \in Sessions :
            (pc[s] = "guard" /\ pc'[s] # "guard") =>
               /\ pc'[s] \in {"stopped_limit", "upload"}
               /\ pc'[s] = "stopped_limit" <=>
                    (limit > 0 /\ Len(Messages(s)) >= limit)
               /\ session_state' = session_state
               /\ <<cache, computing, file>>' = <<cache, computing, file>>]_vars
    /\ [](\A s \in Sessions :
            (limit > 0 /\ pc[s] \in BeforeAppend) =>
               Len(Messages(s)) < limit)
    /\ [][\A s \in Sessions :
            ( /\ limit > 0
              /\ HasMessages(s)
              /\ Len(Messages(s)) >= limit
              /\ pc[s] \notin {"ask_chain", "async_for", "append"} )
            => /\ Messages(s)' = Messages(s)
               /\ pc'[s] \notin {"ask_chain", "async_for", "append"}]_vars
    /\ [](\A s \in Sessions : pc[s] = "stopped_limit" => limit > 0)

\* A run halted by the guard with the conversation one past the limit.
C2_Witness ==
    \E s \in Sessions :
        /\ pc[s] = "stopped_limit"
        /\ limit = 3
        /\ Len(Messages(s)) = 4

\* ---------------------------------------------------------------- C3
\* C3: when an execution of the body of build_qa_chain returns, the file
\* training_info.txt holds exactly the two lines of that execution: the
\* timestamp and the count it stored in the session state, the count being
\* len(files).
C3_RecordOfThisExecution ==
    [][\A s \in Sessions :
         (pc[s] = "create_chain" /\ pc'[s] = "header") =>
            /\ file' = RecordText(session_state[s].last_trained,
                                  session_state[s].files_ingested)
            /\ session_state[s].files_ingested = Len(frame[s].files)
            /\ session_state[s].last_trained = frame[s].last_trained]_vars

\* ---------------------------------------------------------------- C4
\* C4: when ask_chain completes, the one message it appends is an assistant
\* message whose content is the concatenation, in stream order, of the str
\* events, the collected documents are the concatenation of the list
\* events, and events of other types contribute to neither.
C4_AskChainCollects ==
    /\ [][\A s \in Sessions :
            (pc[s] = "append" /\ pc'[s] # "append") =>
               /\ pc'[s] = "done"
               /\ Len(Messages(s)') = Len(Messages(s)) + 1
               /\ IsPrefix(Messages(s), Messages(s)')
               /\ Last(Messages(s)') =
                    Message("assistant",
                            ConcatOfType(stream[s].events, "str"))
               /\ documents[s] = ConcatOfType(stream[s].events, "list")]_vars
    /\ [](\A s \in Sessions :
            pc[s] = "append" =>
               /\ pos[s] = Len(stream[s].events)
               /\ ~stream[s].raises
               /\ (stream[s].events = <<>> => full_response[s] = <<>>))

\* ask_chain about to append after a stream of a str, then a list event.
C4_Witness ==
    \E s \in Sessions :
        /\ pc[s] = "append"
        /\ Len(stream[s].events) = 2
        /\ stream[s].events[1] = StrEvent(<<"b">>)
        /\ stream[s].events[2].type # "str"
        /\ full_response[s] = <<"b">>

\* ---------------------------------------------------------------- C5
\* C5: a session's message list only grows at its end, is never empty once
\* it exists, always starts with the greeting, and comes into existence
\* only by the initialisation, which runs only when the key is absent.
C5_AppendOnly ==
    /\ [][\A s \in Sessions :
            /\ HasMessages(s) =>
                 /\ HasMessages(s)'
                 /\ IsPrefix(Messages(s), Messages(s)')
            /\ (~HasMessages(s) /\ HasMessages(s)') =>
                 /\ pc[s] = "init"
                 /\ Messages(s)' = <<Greeting>>]_vars
    /\ [](\A s \in Sessions :
            HasMessages(s) =>
               /\ Len(Messages(s)) >= 1
               /\ Messages(s)[1] = Greeting)

\* A conversation with a question and an answer behind the greeting.
C5_Witness ==
    \E s \in Sessions :
        /\ HasMessages(s)
        /\ Len(Messages(s)) >= 3
        /\ Messages(s)[2].role = "user"

\* ---------------------------------------------------------------- C6
\* C6: no step of one session changes what another session reads or ends
\* up with: while session t is about to look up the cache, whether its key
\* is cached (whether its body of build_qa_chain executes, and the chain it
\* gets) and whether the key's lock is free do not change; and once t has
\* written its training record, the record stays while t builds its chain.
C6_SessionsIsolated ==
    [][\A s, t \in Sessions :
         (s # t /\ pc'[s] # pc[s]) =>
            /\ pc[t] = "build_qa_chain" =>
                 /\ (frame[t].files \in DOMAIN cache')
                      = (frame[t].files \in DOMAIN cache)
                 /\ (frame[t].files \in computing')
                      = (frame[t].files \in computing)
            /\ pc[t] \in Collaborators => file' = file]_vars

\* ---------------------------------------------------------------- C7
ScriptOrder ==
    <<"init", "guard", "upload", "build_qa_chain", "body_state", "body_open",
      "body_write", "upload_files", "ingest", "create_llm",
      "create_retriever", "create_chain", "header", "history", "chat_input",
      "ask_chain", "async_for", "append">>

Index(p) == CHOOSE i \in 1..Len(ScriptOrder) : ScriptOrder[i] = p

\* C7: a run moves through limit guard, upload handler, chain builder,
\* history display and chat input in that order; an executing body of
\* build_qa_chain stores the training values and writes the record, then
\* calls upload_files, ingest, create_llm, create_retriever and
\* create_chain in that order, each on the result of the one before; and
\* while the collaborators are called the record is on file and in the
\* session state.
C7_StageOrder ==
    /\ [][\A s \in Sessions :
            (pc'[s] # pc[s] /\ Running(s) /\ pc'[s] \notin Ended) =>
               \/ Index(pc'[s]) = Index(pc[s]) + 1
               \/ pc[s] = "build_qa_chain" /\ pc'[s] = "header"]_vars
    /\ [][\A s \in Sessions :
            (pc[s] = "create_chain" /\ pc'[s] = "header") =>
               chain'[s] =
                 <<"chain", <<"llm">>,
                   <<"retriever", <<"llm">>,
                     <<"vector_store", <<"file_paths", frame[s].files>>>>>>>>
         ]_vars
    /\ [](\A s \in Sessions :
            pc[s] \in Collaborators =>
               /\ Has(session_state[s], "last_trained")
               /\ Has(session_state[s], "files_ingested")
               /\ session_state[s].files_ingested = Len(frame[s].files)
               /\ file = RecordText(session_state[s].last_trained,
                                    session_state[s].files_ingested))

\* A collaborator call has failed after the record was written.
C7_Witness ==
    \E s \in Sessions :
        /\ pc[s] = "error"
        /\ file # <<>>
        /\ frame[s] = NoValue
        /\ Has(session_state[s], "last_trained")
        /\ session_state[s].files_ingested = 2
        /\ file = RecordText(session_state[s].last_trained, 2)
        /\ cache = <<>>

\* ---------------------------------------------------------------- C8
\* C8: whenever a run renders the header, last_trained and files_ingested
\* are defined in the session state, and files_ingested counts the files
\* the chain of this run was built from.
C8_HeaderKeysDefined ==
    \A s \in Sessions :
        pc[s] = "header" =>
            /\ Has(session_state[s], "last_trained")
            /\ Has(session_state[s], "files_ingested")
            /\ session_state[s].files_ingested = Len(FilesOf(chain[s]))

\* ---------------------------------------------------------------- C9
\* The number of messages a session had when its current run began.
StartLen(s) ==
    IF Has(start[s], "messages") THEN Len(start[s].messages) ELSE 0

\* The messages appended by the current run behind the list it began with
\* or initialised.
Appended(s) ==
    Len(Messages(s)) - (IF Has(start[s], "messages") THEN StartLen(s) ELSE 1)

\* C9: with a limit L >= 1 the list never holds more than L + 1 messages; a
\* run appends at most two messages, a user message and then an assistant
\* message, and appends only if it began with fewer than L messages.
C9_LengthBound ==
    \A s \in Sessions :
        (limit >= 1 /\ HasMessages(s)) =>
            /\ Len(Messages(s)) <= limit + 1
            /\ pc[s] # "init" =>
                 /\ Appended(s) \in 0..2
                 /\ Appended(s) > 0 => StartLen(s) < limit
                 /\ Appended(s) >= 1 =>
                      Messages(s)[Len(Messages(s)) - Appended(s) + 1].role
                        = "user"
                 /\ Appended(s) = 2 => Last(Messages(s)).role = "assistant"

\* A conversation of L + 1 messages, two of them appended by the last run.
C9_Witness ==
    \E s \in Sessions :
        /\ limit = 3
        /\ pc[s] = "done"
        /\ Len(Messages(s)) = limit + 1
        /\ Appended(s) = 2

\* --------------------------------------------------------------- C10
\* C10: at the end of every run the messages alternate assistant, user,
\* assistant, ..., and every user message is followed by its answer.
C10_RolesAlternate ==
    \A s \in Sessions :
        (pc[s] \in Ended /\ HasMessages(s)) =>
            /\ \A i \in 1..Len(Messages(s)) :
                 Messages(s)[i].role =
                   (IF i % 2 = 1 THEN "assistant" ELSE "user")
            /\ Last(Messages(s)).role = "assistant"

====
